---- MODULE Spec2Model ----
(***************************************************************************)
(* A model of pangako (src/pangako.js), a Promises/A+ implementation.      *)
(*                                                                         *)
(* Promises are numbered 1, 2, ... in order of construction.  JavaScript   *)
(* is single threaded: every entry into the library (a call of defer,      *)
(* new Promise, resolve, reject, then by user code; a unit of work run by  *)
(* asap; a timer of a foreign thenable calling back) runs to completion    *)
(* and is one action.  The library's functions are operators that take the *)
(* heap S (a record of all the variables) and return the heap after the    *)
(* call; S.exc holds an exception that is propagating (<<>> when none).    *)
(* User code running inside a handler may itself call resolve, reject or   *)
(* then: those calls are the user actions interleaved between the units of *)
(* work.                                                                   *)
(***************************************************************************)
EXTENDS Integers, Sequences, FiniteSets, TLC

\* ------------------------------------------------------------------ bounds
MaxRoots == 1      \* promises made by user code (defer / new Promise)
MaxThen == 2       \* then calls made by user code
MaxDepth == 3      \* depth of the longest chain of nested foreign thenables
\* Promises ever constructed: the user's roots, and for every user then its
\* deferred plus the deferred of one internal then on a promise it returned.
\* One more lets a run-away chain (a promise fulfilled with itself) show.
MaxPromises == MaxRoots + 2 * MaxThen + 1

\* ------------------------------------------------------------ PromiseState
PENDING == "pending"
FULFILLED == "fulfilled"
REJECTED == "rejected"

\* ------------------------------------------------------------------ values
\* Every JavaScript value of the model is a record [k, n].
Undefined == [k |-> "undef", n |-> 0]
Unset == [k |-> "unset", n |-> 0]           \* the property does not exist
Val(i) == [k |-> "val", n |-> i]            \* a primitive
Err(i) == [k |-> "err", n |-> i]            \* an Error object (no then)
Prom(p) == [k |-> "prom", n |-> p]          \* pangako promise number p
Thenable(t) == [k |-> "thenable", n |-> t]  \* foreign object number t
Ctx(c) == [k |-> "ctx", n |-> c]            \* names resolution context c
TypeErr == Err(0)                           \* new TypeError()
V1 == Val(1)
V2 == Val(2)
E1 == Err(1)
E2 == Err(2)
E3 == Err(3)

\* ---------------------------------------------------------------- handlers
\* What user code may pass to then, and the two closures of lines 183-192.
Handler(kind, x) == [k |-> kind, x |-> x]
Absent == Handler("absent", Undefined)            \* undefined / null
NonCallable == Handler("noncallable", Undefined)  \* e.g. the number 5
Ret(x) == Handler("ret", x)                       \* function() { return x }
Id == Handler("id", Undefined)                    \* function(v) { return v }
Throw(e) == Handler("throw", e)                   \* function() { throw e }
Self == Handler("self", Undefined)     \* returns the promise then returned
OnF(c) == Handler("onFulfilled", Ctx(c))          \* line 183, context c
OnR(c) == Handler("onRejected", Ctx(c))           \* line 188, context c

\* callback && typeof(callback) === 'function'
IsFunction(h) == h.k \notin {"absent", "noncallable"}

\* ------------------------------------------------------- foreign thenables
\* A foreign object x: what reading x.then does, and what x.then(f, r) does:
\* the calls of f / r it makes before returning (sync), whether it then
\* throws, and the calls it makes from later timers (late).
F(v) == [kind |-> "F", v |-> v]
R(v) == [kind |-> "R", v |-> v]
Script(get, sync, throws, late) ==
  [get |-> get, sync |-> sync, throws |-> throws, late |-> late]

TwiceF == 1
FThenR == 2
RThenLateF == 3
Never == 4
PendingThenF == 5
LateFR == 6
ThrowFirst == 7
FThenThrow == 8
GetterThrows == 9
NoThen == 10
FPendingThenThrow == 11
ChainBase == 20   \* Thenable(ChainBase + k): a chain of k thenables above V1

ChainValue(k) == IF k = 0 THEN V1 ELSE Thenable(ChainBase + k)

ThenableScript(t) ==
  CASE t = TwiceF -> Script("function", <<F(V1), F(V2)>>, FALSE, <<>>)
    [] t = FThenR -> Script("function", <<F(V1), R(E1)>>, FALSE, <<>>)
    [] t = RThenLateF -> Script("function", <<R(E1)>>, FALSE, <<F(V1)>>)
    [] t = Never -> Script("function", <<>>, FALSE, <<>>)
    [] t = PendingThenF ->
         Script("function", <<F(Thenable(Never)), F(V2)>>, FALSE, <<R(E1)>>)
    [] t = LateFR -> Script("function", <<>>, FALSE, <<F(V2), R(E1)>>)
    [] t = ThrowFirst -> Script("function", <<>>, TRUE, <<>>)
    [] t = FThenThrow -> Script("function", <<F(V1)>>, TRUE, <<>>)
    [] t = GetterThrows -> Script("throws", <<>>, FALSE, <<>>)
    [] t = NoThen -> Script("none", <<>>, FALSE, <<>>)
    [] t = FPendingThenThrow ->
         Script("function", <<F(Thenable(Never))>>, TRUE, <<>>)
    [] OTHER ->
         \* link k of a chain: odd links call back inside then, even links
         \* call back from a timer
         IF (t - ChainBase) % 2 = 1
           THEN Script("function", <<F(ChainValue(t - ChainBase - 1))>>,
                       FALSE, <<>>)
           ELSE Script("function", <<>>, FALSE,
                       <<F(ChainValue(t - ChainBase - 1))>>)

ForeignIds == {TwiceF, FThenR, RThenLateF, Never, PendingThenF, LateFR,
               ThrowFirst, FThenThrow, GetterThrows, NoThen,
               FPendingThenThrow}
             \cup {ChainBase + k : k \in 1..MaxDepth}

\* x && (typeof(x) === 'object' || typeof(x) === 'function')
IsObject(x) == x.k \in {"err", "prom", "thenable"}

\* ------------------------------------------------------------------- state
VARIABLES
  state,          \* promise -> PromiseState               (this.state)
  valueOrReason,  \* promise -> value                      (this.valueOrReason)
  subscribers,    \* promise -> sequence of subscribers    (this.subscribers)
  queue,          \* asap's FIFO queue of units of work
  timers,         \* calls foreign thenables will make from their timers
  settled,        \* resolution context -> the `settled` flag of line 181
  ctxDeferred,    \* resolution context -> the deferred its closures hold
  roots,          \* promises whose resolve / reject user code holds
  regs,           \* history: every call of then, in order
  calls,          \* history: every invocation of a handler, in order
  cbLog,          \* history: calls of the closures of lines 183-192
  prp,            \* history: deferreds promiseResolutionProcedure ran for
  resettled,      \* history: promises settlePromise was called on when settled
  escaped         \* history: where an exception left the library

vars == <<state, valueOrReason, subscribers, queue, timers, settled,
          ctxDeferred, roots, regs, calls, cbLog, prp, resettled, escaped>>

\* The heap as one record, threaded through the library's functions.
Cur ==
  [state |-> state, valueOrReason |-> valueOrReason,
   subscribers |-> subscribers, queue |-> queue, timers |-> timers,
   settled |-> settled, ctxDeferred |-> ctxDeferred, roots |-> roots,
   regs |-> regs, calls |-> calls, cbLog |-> cbLog, prp |-> prp,
   resettled |-> resettled, escaped |-> escaped, exc |-> <<>>]

\* The heap an entry into the library leaves behind; an exception still
\* propagating when the entry returns has left the library at `place`.
Commit(S, place) ==
  /\ state' = S.state
  /\ valueOrReason' = S.valueOrReason
  /\ subscribers' = S.subscribers
  /\ queue' = S.queue
  /\ timers' = S.timers
  /\ settled' = S.settled
  /\ ctxDeferred' = S.ctxDeferred
  /\ roots' = S.roots
  /\ regs' = S.regs
  /\ calls' = S.calls
  /\ cbLog' = S.cbLog
  /\ prp' = S.prp
  /\ resettled' = S.resettled
  /\ escaped' = IF S.exc # <<>> THEN S.escaped \cup {place} ELSE S.escaped

Promises == 1..Len(state)

\* With(e, Op) is Op(e). It is written where e is a call that returns the heap
\* and Op reads it several times, so that TLC evaluates the call once.
With(e, Op(_)) == CHOOSE r \in {Op(v) : v \in {e}} : TRUE

\* ------------------------------------------------------- the library's code
\* function Promise, lines 43-46: a new pending promise, no subscribers.
\* valueOrReason is not assigned: the new object has no such property, which
\* is not the same as having it with the value undefined.
Promise(S) ==
  [S EXCEPT !.state = Append(@, PENDING),
            !.valueOrReason = Append(@, Unset),
            !.subscribers = Append(@, <<>>)]

\* function defer: new Promise with a work function that only stores the
\* two capabilities. The new promise is number Len(state).
defer(S) == Promise(S)

CallbackTask(deferred, callback, st, v, reg) ==
  [t |-> "callback", deferred |-> deferred, callback |-> callback,
   state |-> st, valueOrReason |-> v, reg |-> reg]

PassTask(deferred, st, v, reg) ==
  [t |-> "passthrough", deferred |-> deferred, callback |-> Absent,
   state |-> st, valueOrReason |-> v, reg |-> reg]

\* SubscriberTask taking the handler of the other outcome.
SubscriberTaskSwapped(subscriber, st, v) ==
  LET callback == IF st = FULFILLED THEN subscriber.onRejected
                                    ELSE subscriber.onFulfilled
  IN IF IsFunction(callback)
       THEN CallbackTask(subscriber.deferred, callback, st, v, subscriber.reg)
       ELSE PassTask(subscriber.deferred, st, v, subscriber.reg)

\* The unit of work settlePromise hands to asap for one subscriber.
SubscriberTask(subscriber, st, v) ==
  LET callback == IF st = FULFILLED THEN subscriber.onFulfilled
                                    ELSE subscriber.onRejected
  IN IF IsFunction(callback)
       THEN CallbackTask(subscriber.deferred, callback, st, v, subscriber.reg)
       ELSE PassTask(subscriber.deferred, st, v, subscriber.reg)

\* settlePromise without the test of line 122.
settlePromiseUnguarded(S, promise, st, v) ==
  LET subs == S.subscribers[promise]
  IN [S EXCEPT !.state[promise] = st,
               !.valueOrReason[promise] = v,
               !.subscribers[promise] = <<>>,
               !.queue = @ \o [i \in 1..Len(subs) |->
                                 SubscriberTask(subs[i], st, v)]]

\* settlePromise settling the deferreds of its pass-through subscribers
\* itself instead of handing them to asap.
settlePromiseInline(S, promise, st, v) ==
  IF S.state[promise] = PENDING
    THEN LET subs == S.subscribers[promise]
             IsPass(s) == SubscriberTask(s, st, v).t = "passthrough"
             passed == {subs[i].deferred : i \in {j \in 1..Len(subs) :
                                                   IsPass(subs[j])}}
             rest == SelectSeq(subs, LAMBDA s : ~IsPass(s))
         IN [S EXCEPT !.state = [q \in DOMAIN @ |->
                                  IF q = promise \/ q \in passed
                                    THEN st ELSE @[q]],
                      !.valueOrReason = [q \in DOMAIN @ |->
                                          IF q = promise \/ q \in passed
                                            THEN v ELSE @[q]],
                      !.subscribers[promise] = <<>>,
                      !.queue = @ \o [i \in 1..Len(rest) |->
                                        SubscriberTask(rest[i], st, v)]]
    ELSE [S EXCEPT !.resettled = @ \cup {promise}]

\* settlePromise without the assignment of line 124.
settlePromiseStateOnly(S, promise, st, v) ==
  IF S.state[promise] = PENDING
    THEN LET subs == S.subscribers[promise]
         IN [S EXCEPT !.state[promise] = st,
                      !.subscribers[promise] = <<>>,
                      !.queue = @ \o [i \in 1..Len(subs) |->
                                        SubscriberTask(subs[i], st, v)]]
    ELSE [S EXCEPT !.resettled = @ \cup {promise}]

\* settlePromise reading the subscribers without shifting them out.
settlePromiseKeeping(S, promise, st, v) ==
  IF S.state[promise] = PENDING
    THEN LET subs == S.subscribers[promise]
         IN [S EXCEPT !.state[promise] = st,
                      !.valueOrReason[promise] = v,
                      !.queue = @ \o [i \in 1..Len(subs) |->
                                        SubscriberTask(subs[i], st, v)]]
    ELSE [S EXCEPT !.resettled = @ \cup {promise}]

\* function settlePromise
settlePromise(S, promise, st, v) ==
  IF S.state[promise] = PENDING
    THEN LET subs == S.subscribers[promise]
         IN [S EXCEPT !.state[promise] = st,
                      !.valueOrReason[promise] = v,
                      !.subscribers[promise] = <<>>,
                      !.queue = @ \o [i \in 1..Len(subs) |->
                                        SubscriberTask(subs[i], st, v)]]
    ELSE [S EXCEPT !.resettled = @ \cup {promise}]

resolvePromise(S, promise, value) == settlePromise(S, promise, FULFILLED, value)

rejectPromise(S, promise, reason) == settlePromise(S, promise, REJECTED, reason)

\* thenPending not pushing the subscriber.
thenPendingForgetting(S, this, onFulfilled, onRejected, reg) ==
  LET S1 == defer(S)
      deferred == Len(S1.state)
  IN [S1 EXCEPT !.regs[reg].ret = deferred]

\* thenPending returning a promise that is already fulfilled.
thenPendingSettling(S, this, onFulfilled, onRejected, reg) ==
  LET S1 == defer(S)
      deferred == Len(S1.state)
  IN [S1 EXCEPT !.subscribers[this] =
                   Append(@, [deferred |-> deferred,
                              onFulfilled |-> onFulfilled,
                              onRejected |-> onRejected, reg |-> reg]),
                !.state[deferred] = FULFILLED,
                !.valueOrReason[deferred] = Undefined,
                !.regs[reg].ret = deferred]

\* then, lines 82-93: the receiver is pending
thenPending(S, this, onFulfilled, onRejected, reg) ==
  LET S1 == defer(S)
      deferred == Len(S1.state)
  IN [S1 EXCEPT !.subscribers[this] =
                   Append(@, [deferred |-> deferred,
                              onFulfilled |-> onFulfilled,
                              onRejected |-> onRejected, reg |-> reg]),
                !.regs[reg].ret = deferred]

RECURSIVE doPromiseCallback(_, _, _, _, _, _)

\* thenSettled calling the handler itself instead of handing it to asap.
thenSettledInline(S, this, onFulfilled, onRejected, reg) ==
  LET callback == IF S.state[this] = FULFILLED THEN onFulfilled
                                               ELSE onRejected
      S1 == defer(S)
      deferred == Len(S1.state)
  IN IF IsFunction(callback)
       THEN doPromiseCallback([S1 EXCEPT !.regs[reg].ret = deferred],
                              deferred, callback, S.valueOrReason[this], reg,
                              IF S.state[this] = FULFILLED
                                THEN "onFulfilled" ELSE "onRejected")
       ELSE [S EXCEPT !.regs[reg].ret = this]

\* thenSettled making a deferred for the pass-through as well.
thenSettledFresh(S, this, onFulfilled, onRejected, reg) ==
  LET callback == IF S.state[this] = FULFILLED THEN onFulfilled
                                               ELSE onRejected
      S1 == defer(S)
      deferred == Len(S1.state)
  IN [S1 EXCEPT !.queue =
                   Append(@, IF IsFunction(callback)
                               THEN CallbackTask(deferred, callback,
                                                 S.state[this],
                                                 S.valueOrReason[this], reg)
                               ELSE PassTask(deferred, S.state[this],
                                             S.valueOrReason[this], reg)),
                !.regs[reg].ret = deferred]

\* thenSettled putting its unit of work at the head of asap's queue.
thenSettledFirst(S, this, onFulfilled, onRejected, reg) ==
  LET callback == IF S.state[this] = FULFILLED THEN onFulfilled
                                               ELSE onRejected
      S1 == defer(S)
      deferred == Len(S1.state)
  IN IF IsFunction(callback)
       THEN [S1 EXCEPT !.queue =
                          <<CallbackTask(deferred, callback, S.state[this],
                                         S.valueOrReason[this], reg)>> \o @,
                       !.regs[reg].ret = deferred]
       ELSE [S EXCEPT !.regs[reg].ret = this]

\* thenSettled not passing the receiver's result on to the handler.
thenSettledUndefined(S, this, onFulfilled, onRejected, reg) ==
  LET callback == IF S.state[this] = FULFILLED THEN onFulfilled
                                               ELSE onRejected
      S1 == defer(S)
      deferred == Len(S1.state)
  IN IF IsFunction(callback)
       THEN [S1 EXCEPT !.queue =
                          Append(@, CallbackTask(deferred, callback,
                                                 S.state[this], Undefined,
                                                 reg)),
                       !.regs[reg].ret = deferred]
       ELSE [S EXCEPT !.regs[reg].ret = this]

\* then, lines 95-108: the receiver is settled
thenSettled(S, this, onFulfilled, onRejected, reg) ==
  LET callback == IF S.state[this] = FULFILLED THEN onFulfilled
                                               ELSE onRejected
      S1 == defer(S)
      deferred == Len(S1.state)
  IN IF IsFunction(callback)
       THEN [S1 EXCEPT !.queue =
                          Append(@, CallbackTask(deferred, callback,
                                                 S.state[this],
                                                 S.valueOrReason[this], reg)),
                       !.regs[reg].ret = deferred]
       ELSE [S EXCEPT !.regs[reg].ret = this]

\* Promise.prototype.then. The call is entered in regs when it starts and
\* marked returned when it returns.
then(S, this, onFulfilled, onRejected, internal) ==
  LET reg == Len(S.regs) + 1
      S0 == [S EXCEPT !.regs =
               Append(@, [recv |-> this, ret |-> 0,
                          onFulfilled |-> onFulfilled,
                          onRejected |-> onRejected, at |-> S.state[this],
                          internal |-> internal, returned |-> FALSE])]
      S1 == IF S.state[this] = PENDING
              THEN thenPending(S0, this, onFulfilled, onRejected, reg)
              ELSE thenSettled(S0, this, onFulfilled, onRejected, reg)
  IN [S1 EXCEPT !.regs[reg].returned = TRUE]

RECURSIVE promiseResolutionProcedure(_, _, _)

\* onFulfilled without the test of line 184.
onFulfilledUnguarded(S, c, value) ==
  promiseResolutionProcedure([S EXCEPT !.settled[c] = TRUE],
                             S.ctxDeferred[c], value)

\* onFulfilled fulfilling with the value it is given, thenable or not.
onFulfilledDirect(S, c, value) ==
  IF S.settled[c]
    THEN S
    ELSE resolvePromise([S EXCEPT !.settled[c] = TRUE],
                        S.ctxDeferred[c], value)

\* The closure onFulfilled of lines 183-187, for resolution context c.
onFulfilled(S, c, value) ==
  IF S.settled[c]
    THEN S
    ELSE promiseResolutionProcedure([S EXCEPT !.settled[c] = TRUE],
                                    S.ctxDeferred[c], value)

\* The closure onRejected of lines 188-192, for resolution context c.
onRejected(S, c, reason) ==
  IF S.settled[c]
    THEN S
    ELSE rejectPromise([S EXCEPT !.settled[c] = TRUE],
                       S.ctxDeferred[c], reason)

\* A call of a closure of context c that took the heap from S to S1, entered
\* in cbLog: whether the context had been called before, and whether the
\* call changed its promise.
logCallback(S, S1, c, kind) ==
  LET d == S.ctxDeferred[c]
  IN [S1 EXCEPT !.cbLog = @ \cup
        {[c |-> c, kind |-> kind, again |-> S.settled[c],
          changed |-> <<S1.state[d], S1.valueOrReason[d]>>
                        # <<S.state[d], S.valueOrReason[d]>>]}]

\* One call of a closure of context c: onFulfilled(v) or onRejected(v).
ctxCallback(S, c, kind, v) ==
  With(IF kind = "F" THEN onFulfilled(S, c, v) ELSE onRejected(S, c, v),
       LAMBDA S1 : logCallback(S, S1, c, kind))

\* The calls a foreign then makes before it returns, in order.
RECURSIVE syncCalls(_, _, _)
syncCalls(S, c, cs) ==
  IF cs = <<>>
    THEN S
    ELSE With(ctxCallback(S, c, Head(cs).kind, Head(cs).v),
              LAMBDA S1 : syncCalls(S1, c, Tail(cs)))

\* How a foreign then ends, its calls made: it sets its timers, and returns
\* or throws.
foreignReturn(S, sc, c) ==
  [S EXCEPT !.timers = @ \o
              [i \in 1..Len(sc.late) |->
                 [c |-> c, kind |-> sc.late[i].kind, v |-> sc.late[i].v]],
            !.exc = IF sc.throws THEN <<E3>> ELSE <<>>]

\* then.call(x, onFulfilled, onRejected), line 183, for foreign object t:
\* its calls before returning, its timers, and the exception it throws.
foreignThen(S, t, c) ==
  With(syncCalls(S, c, ThenableScript(t).sync),
       LAMBDA S1 : foreignReturn(S1, ThenableScript(t), c))

\* let then = x.then, line 175: "function", "none", or "throws" (a getter
\* that throws). A pangako promise has Promise.prototype.then.
ThenOf(x) ==
  CASE x.k = "prom" -> "function"
    [] x.k = "thenable" -> ThenableScript(x.n).get
    [] OTHER -> "none"

\* The catch of lines 194-197 without the test of line 195.
thenCalledRejecting(S, deferred, c) ==
  IF S.exc = <<>>
    THEN S
    ELSE rejectPromise([S EXCEPT !.exc = <<>>], deferred, S.exc[1])

\* The try of lines 182-197 once then.call has returned or thrown, leaving
\* heap S: catch (err) { if (settled) return; deferred.reject(err); }
thenCalled(S, deferred, c) ==
  IF S.exc = <<>>
    THEN S
    ELSE IF S.settled[c]
           THEN [S EXCEPT !.exc = <<>>]
           ELSE rejectPromise([S EXCEPT !.exc = <<>>], deferred, S.exc[1])

\* promiseResolutionProcedure without the test of lines 170-172.
promiseResolutionProcedureNoSelfTest(S0, deferred, x) ==
  LET S == [S0 EXCEPT !.prp = @ \cup {deferred}]
  IN IF IsObject(x)
       THEN CASE ThenOf(x) = "throws" -> rejectPromise(S, deferred, E3)
              [] ThenOf(x) = "function" ->
                   LET c == Len(S.settled) + 1
                       S1 == [S EXCEPT !.settled = Append(@, FALSE),
                                       !.ctxDeferred = Append(@, deferred)]
                   IN With(IF x.k = "prom"
                             THEN then(S1, x.n, OnF(c), OnR(c), TRUE)
                             ELSE foreignThen(S1, x.n, c),
                           LAMBDA S2 : thenCalled(S2, deferred, c))
              [] OTHER -> resolvePromise(S, deferred, x)
       ELSE resolvePromise(S, deferred, x)

\* function promiseResolutionProcedure. deferred.resolve and deferred.reject
\* are the closures of lines 49-54: resolvePromise and rejectPromise.
promiseResolutionProcedure(S0, deferred, x) ==
  LET S == [S0 EXCEPT !.prp = @ \cup {deferred}]
  IN IF x = Prom(deferred)
       THEN rejectPromise(S, deferred, TypeErr)            \* lines 171, 208
       ELSE IF IsObject(x)
         THEN CASE ThenOf(x) = "throws" ->
                     rejectPromise(S, deferred, E3)        \* lines 175, 208
                [] ThenOf(x) = "function" ->
                     LET c == Len(S.settled) + 1           \* let settled
                         S1 == [S EXCEPT !.settled = Append(@, FALSE),
                                         !.ctxDeferred = Append(@, deferred)]
                     IN With(IF x.k = "prom"
                               THEN then(S1, x.n, OnF(c), OnR(c), TRUE)
                               ELSE foreignThen(S1, x.n, c),
                             LAMBDA S2 : thenCalled(S2, deferred, c))
                                                           \* lines 182-197
                [] OTHER -> resolvePromise(S, deferred, x) \* line 200
         ELSE resolvePromise(S, deferred, x)               \* line 204

\* callback(valueOrReason), line 160: the heap after the call, and what the
\* call returned or threw.
callHandler(S, callback, v, deferred) ==
  CASE callback.k = "ret" ->
         [S |-> S, threw |-> FALSE, x |-> callback.x, callback |-> callback]
    [] callback.k = "id" ->
         [S |-> S, threw |-> FALSE, x |-> v, callback |-> callback]
    [] callback.k = "throw" ->
         [S |-> S, threw |-> TRUE, x |-> callback.x, callback |-> callback]
    [] callback.k = "self" ->
         [S |-> S, threw |-> FALSE, x |-> Prom(deferred),
          callback |-> callback]
    [] callback.k = "onFulfilled" ->
         [S |-> ctxCallback(S, callback.x.n, "F", v), threw |-> FALSE,
          x |-> Undefined, callback |-> callback]
    [] callback.k = "onRejected" ->
         [S |-> ctxCallback(S, callback.x.n, "R", v), threw |-> FALSE,
          x |-> Undefined, callback |-> callback]

\* The invocation r of a handler of then call reg, entered in calls. S is
\* the heap before the invocation.
logCall(S, r, v, reg, side) ==
  [r.S EXCEPT !.calls =
     Append(@, [reg |-> reg, side |-> side, callback |-> r.callback,
                arg |-> v,
                returned |-> S.regs[reg].returned,
                recvState |-> S.state[S.regs[reg].recv],
                threw |-> r.threw, x |-> r.x])]

\* doPromiseCallback without its try / catch: the exception goes on.
handlerCalledNoCatch(S, r, deferred) ==
  IF r.threw
    THEN [S EXCEPT !.exc = <<r.x>>]
    ELSE promiseResolutionProcedure(S, deferred, r.x)

\* doPromiseCallback once callback(valueOrReason) has returned or thrown (r).
handlerCalled(S, r, deferred) ==
  IF r.threw
    THEN rejectPromise(S, deferred, r.x)                   \* line 164
    ELSE promiseResolutionProcedure(S, deferred, r.x)      \* line 161

\* doPromiseCallback rejecting with what a rejection handler returns.
handlerLoggedRejecting(S, r, deferred, v, reg, side) ==
  IF side = "onRejected"
    THEN rejectPromise(logCall(S, r, v, reg, side), deferred, r.x)
    ELSE With(logCall(S, r, v, reg, side),
              LAMBDA S1 : handlerCalled(S1, r, deferred))

\* The invocation r of the handler of then call reg, and what follows it.
handlerLogged(S, r, deferred, v, reg, side) ==
  With(logCall(S, r, v, reg, side), LAMBDA S1 : handlerCalled(S1, r, deferred))

\* function doPromiseCallback, on behalf of then call reg.
doPromiseCallback(S, deferred, callback, v, reg, side) ==
  With(callHandler(S, callback, v, deferred),
       LAMBDA r : handlerLogged(S, r, deferred, v, reg, side))

\* The pass-through forwarding every outcome as a fulfillment.
passThroughResolving(S, deferred, st, v) == resolvePromise(S, deferred, v)

\* The pass-through unit of work, lines 139-151.
passThrough(S, deferred, st, v) ==
  IF st = FULFILLED THEN resolvePromise(S, deferred, v)
                    ELSE rejectPromise(S, deferred, v)

\* One unit of work handed to asap (lines 101-103, 133-135, 139-151).
runTask(S, task) ==
  IF task.t = "callback"
    THEN doPromiseCallback(S, task.deferred, task.callback,
                           task.valueOrReason, task.reg,
                           IF task.state = FULFILLED THEN "onFulfilled"
                                                     ELSE "onRejected")
    ELSE passThrough(S, task.deferred, task.state, task.valueOrReason)

\* ------------------------------------------------------------- user inputs
\* Promises user code holds: its roots and those its then calls returned.
Visible == roots \cup {regs[i].ret : i \in {j \in 1..Len(regs) : ~regs[j].internal}}

UserThens == Cardinality({j \in 1..Len(regs) : ~regs[j].internal})

\* Values user code passes to resolve.
ResolveValues == {V1, Thenable(TwiceF)}

\* Reasons user code passes to reject.
RejectReasons == {E1}

\* Work functions passed to new Promise: what they do before returning.
Works == {[k |-> "resolve", x |-> V1], [k |-> "reject", x |-> E1],
          [k |-> "throw", x |-> E2]}

\* Functions user code passes to then.
Functions ==
  {Ret(V2), Id, Throw(E2), Self}
    \cup {Ret(Thenable(t)) : t \in ForeignIds}
    \cup {Ret(Prom(q)) : q \in Visible}

\* The (onFulfilled, onRejected) pairs user code passes to then.
HandlerPairs ==
  {<<f, Absent>> : f \in Functions}
    \cup {<<Absent, f>> : f \in Functions}
    \cup {<<a, b>> : a \in {Absent, NonCallable}, b \in {Absent, NonCallable}}
    \cup {<<Ret(V2), Throw(E2)>>, <<Throw(E2), Ret(V2)>>, <<Id, Id>>,
          <<Self, Self>>}

\* The pairs user code passes to then in the runs the eventualities are
\* checked on: handlers that return a value or their argument, that throw,
\* that are absent or no function, that return a chain of thenables or a
\* pangako promise.
LiveHandlerPairs ==
  {<<Ret(V2), Id>>, <<Absent, Id>>, <<Absent, Absent>>,
   <<NonCallable, NonCallable>>, <<Throw(E2), Ret(V2)>>}
    \cup {<<Ret(ChainValue(k)), Absent>> : k \in 1..MaxDepth}
    \cup {<<Ret(Prom(q)), Absent>> : q \in Visible}

\* ----------------------------------------------------------------- actions
Init ==
  /\ state = <<>>
  /\ valueOrReason = <<>>
  /\ subscribers = <<>>
  /\ queue = <<>>
  /\ timers = <<>>
  /\ settled = <<>>
  /\ ctxDeferred = <<>>
  /\ roots = {}
  /\ regs = <<>>
  /\ calls = <<>>
  /\ cbLog = {}
  /\ prp = {}
  /\ resettled = {}
  /\ escaped = {}

\* User code calls defer() and keeps the deferred.
Defer ==
  /\ Cardinality(roots) < MaxRoots
  /\ LET S == defer(Cur)
     IN Commit([S EXCEPT !.roots = @ \cup {Len(S.state)}], "defer")

\* User code calls new Promise(work); work settles the promise, or throws,
\* before it returns (line 55). When work throws, the constructor throws:
\* user code gets no promise, and the one under construction is garbage.
NewPromise ==
  /\ Cardinality(roots) < MaxRoots
  /\ \E work \in Works :
       LET S == Promise(Cur)
           p == Len(S.state)
       IN CASE work.k = "resolve" ->
                 Commit([resolvePromise(S, p, work.x)
                           EXCEPT !.roots = @ \cup {p}], "constructor")
            [] work.k = "reject" ->
                 Commit([rejectPromise(S, p, work.x)
                           EXCEPT !.roots = @ \cup {p}], "constructor")
            [] OTHER -> Commit([Cur EXCEPT !.exc = <<work.x>>], "constructor")

\* User code calls the resolve capability of promise p (line 49-51).
Resolve ==
  \E p \in roots : \E x \in ResolveValues :
    Commit(resolvePromise(Cur, p, x), "resolve")

\* User code calls the resolve capability of promise p with p itself.
ResolveSelf ==
  \E p \in roots : Commit(resolvePromise(Cur, p, Prom(p)), "resolve")

\* User code calls the reject capability of promise p (lines 52-54).
Reject ==
  \E p \in roots : \E x \in RejectReasons :
    Commit(rejectPromise(Cur, p, x), "reject")

\* User code calls p.then(onFulfilled, onRejected), the handlers taken from
\* pairs.
ThenWith(pairs) ==
  /\ UserThens < MaxThen
  /\ \E p \in Visible : \E h \in pairs :
       \E S \in {then(Cur, p, h[1], h[2], FALSE)} : Commit(S, "then")

Then == ThenWith(HandlerPairs)

ThenLive == ThenWith(LiveHandlerPairs)

\* asap runs the unit of work at the head of its queue.
RunTask ==
  /\ queue # <<>>
  /\ Len(state) < MaxPromises
  /\ \E S \in {[Cur EXCEPT !.queue = Tail(@)]} :
       \E S1 \in {runTask(S, Head(queue))} : Commit(S1, "task")

\* A timer of a foreign thenable fires and calls one of the closures it was
\* given.
RunTimer ==
  /\ timers # <<>>
  /\ LET tm == Head(timers)
     IN \E S \in {[Cur EXCEPT !.timers = Tail(@)]} :
          \E S1 \in {ctxCallback(S, tm.c, tm.kind, tm.v)} : Commit(S1, "timer")

Next ==
  \/ Defer
  \/ NewPromise
  \/ Resolve
  \/ ResolveSelf
  \/ Reject
  \/ Then
  \/ RunTask
  \/ RunTimer

Spec == Init /\ [][Next]_vars

\* The program under a scheduler that runs every unit of work and every
\* timer, with user code that passes the handlers of LiveHandlerPairs. A
\* promise fulfilled with itself (ResolveSelf) sends a handler that returns
\* it through promiseResolutionProcedure without end, one new deferred per
\* round, which the bound MaxPromises cuts short; the eventualities are
\* checked for the runs without it, where the bound is never met.
LiveNext ==
  \/ Defer
  \/ NewPromise
  \/ Resolve
  \/ Reject
  \/ ThenLive
  \/ RunTask
  \/ RunTimer

LiveSpec ==
  Init /\ [][LiveNext]_vars /\ WF_vars(RunTask) /\ WF_vars(RunTimer)

\* ------------------------------------------------------------------ claims
Regs == 1..Len(regs)
Calls == 1..Len(calls)

\* The handler of then call i that matches outcome st of its receiver.
Matching(i, st) ==
  IF st = FULFILLED THEN regs[i].onFulfilled ELSE regs[i].onRejected

\* C1: a promise that is not pending keeps its state and its result in every
\* step, and a call of resolve or reject on a promise that is not pending
\* changes no promise's state, result or subscribers and schedules nothing.
C1_SettleOnce ==
  [][/\ \A p \in Promises :
          state[p] # PENDING =>
            state'[p] = state[p] /\ valueOrReason'[p] = valueOrReason[p]
     /\ resettled' # resettled =>
          UNCHANGED <<state, valueOrReason, subscribers, queue>>]_vars

\* resolve or reject has been called again on a promise that had settled
\* with a subscriber in its queue
C1_Witness ==
  \E p \in resettled : \E i \in Regs : regs[i].recv = p /\ regs[i].at = PENDING

\* C2: every handler invoked so far was invoked after the then call that
\* registered it had returned.
C2_StrictDeferral == \A i \in Calls : calls[i].returned

\* handlers have run that were registered on a pending, and on a settled
\* receiver
C2_Witness ==
  /\ \E i \in Calls : regs[calls[i].reg].at = PENDING
  /\ \E i \in Calls : regs[calls[i].reg].at # PENDING

\* C3 as stated: the promise then returns is never its receiver.
C3_AlwaysDistinct == \A i \in Regs : regs[i].ret # regs[i].recv

\* C3 amended: then returns its receiver exactly when the receiver is settled
\* at the call and the handler matching its outcome is not a function; in
\* every other case it returns a promise constructed during the call, which no
\* earlier then call returned or received and which is no root.
C3_DistinctUnlessPassThrough ==
  \A i \in Regs :
    /\ regs[i].ret = regs[i].recv <=>
         (regs[i].at # PENDING /\ ~IsFunction(Matching(i, regs[i].at)))
    /\ regs[i].ret # regs[i].recv =>
         /\ regs[i].ret \notin roots
         /\ \A j \in 1..(i - 1) : regs[i].ret \notin {regs[j].ret, regs[j].recv}

\* then has returned its receiver, and has returned a new promise for a
\* settled and for a pending receiver
C3_Witness ==
  /\ \E i \in Regs : regs[i].ret = regs[i].recv
  /\ \E i \in Regs : regs[i].ret # regs[i].recv /\ regs[i].at # PENDING

\* C4: a call of one of the two closures of a resolution context, made after
\* an earlier call of one of them, leaves the promise's state and result as
\* they were.
C4_OneShot == \A e \in cbLog : e.again => ~e.changed

\* a thenable has called onFulfilled with a thenable that is still pending,
\* then onFulfilled again, and later onRejected, and the promise is pending
C4_Witness ==
  \E e1 \in cbLog : \E e2 \in cbLog :
    /\ e1.c = e2.c
    /\ e1.again /\ e1.kind = "F"
    /\ e2.again /\ e2.kind = "R"
    /\ state[ctxDeferred[e1.c]] = PENDING

\* C5: once a handler has returned the promise its then call returned, that
\* promise is rejected with a TypeError; and the promise returned by a then
\* call whose onFulfilled returns it is never fulfilled.
C5_SelfResolution ==
  /\ \A i \in Calls :
       LET d == regs[calls[i].reg].ret
       IN (~calls[i].threw /\ calls[i].x = Prom(d)) =>
            state[d] = REJECTED /\ valueOrReason[d] = TypeErr
  /\ \A i \in Regs :
       regs[i].onFulfilled = Self => state[regs[i].ret] # FULFILLED

\* a handler has returned the promise its then call returned
C5_Witness ==
  \E i \in Calls : ~calls[i].threw /\ calls[i].x = Prom(regs[calls[i].reg].ret)

\* C6 as stated: a root promise (one whose resolve capability user code
\* holds) is never fulfilled with itself nor with an object that has a
\* callable then.
C6_ResolveRoutes ==
  \A p \in roots :
    state[p] = FULFILLED =>
      valueOrReason[p] # Prom(p) /\ ThenOf(valueOrReason[p]) # "function"

\* C7: once a handler has thrown e, the promise its then call returned is
\* rejected with e and promiseResolutionProcedure has not run for it; and no
\* exception has left a unit of work.
C7_HandlerFault ==
  /\ "task" \notin escaped
  /\ \A i \in Calls :
       LET d == regs[calls[i].reg].ret
       IN calls[i].threw =>
            /\ state[d] = REJECTED
            /\ valueOrReason[d] = calls[i].x
            /\ d \notin prp

\* a fulfillment handler and a rejection handler have thrown
C7_Witness ==
  /\ \E i \in Calls : calls[i].threw /\ calls[i].side = "onFulfilled"
  /\ \E i \in Calls : calls[i].threw /\ calls[i].side = "onRejected"

\* Then calls there can be: the user's, and one internal per user call.
MaxRegs == 2 * MaxThen

\* The receiver of then call i has settled.
Settled(i) == i \in Regs /\ state[regs[i].recv] # PENDING

\* The handler of then call i that matches the outcome of its receiver.
Selected(i) == Matching(i, state[regs[i].recv])

\* What the selected handler of then call i returns, when it is one that
\* returns a fixed value or its argument.
Returned(i) ==
  IF Selected(i).k = "ret" THEN Selected(i).x
                           ELSE valueOrReason[regs[i].recv]

\* C8's case: the receiver has settled and the selected handler returns a
\* value that has no callable then.
ReturnsValue(i) ==
  /\ Settled(i)
  /\ Selected(i).k \in {"ret", "id"}
  /\ ThenOf(Returned(i)) = "none"

FulfilledWithReturned(i) ==
  /\ i \in Regs
  /\ state[regs[i].ret] = FULFILLED
  /\ valueOrReason[regs[i].ret] = Returned(i)

\* C8: when the receiver of a then call has settled and the selected handler
\* returns a value with no callable then, the promise then returned is
\* pending until it is fulfilled with that value, and it is eventually
\* fulfilled with it.
C8_HandlerReturn ==
  /\ [](\A i \in Regs :
          ReturnsValue(i) =>
            state[regs[i].ret] = PENDING \/ FulfilledWithReturned(i))
  /\ \A i \in 1..MaxRegs : ReturnsValue(i) ~> FulfilledWithReturned(i)

\* a rejection handler has returned the reason it was given, and the promise
\* then returned is fulfilled with it
C8_Witness ==
  \E i \in Regs :
    /\ ReturnsValue(i) /\ FulfilledWithReturned(i)
    /\ state[regs[i].recv] = REJECTED
    /\ regs[i].at = PENDING

\* C9's case: the receiver has settled and the selected handler is no
\* function.
PassesThrough(i) == Settled(i) /\ ~IsFunction(Selected(i))

SameAsReceiver(i) ==
  /\ i \in Regs
  /\ state[regs[i].ret] = state[regs[i].recv]
  /\ valueOrReason[regs[i].ret] = valueOrReason[regs[i].recv]

\* C9: when the receiver of a then call has settled and the selected handler
\* is absent or no function, the promise then returned is pending until it
\* has the receiver's state and result, and eventually has them; and a
\* handler registered on that promise is invoked with the receiver's result.
C9_PassThrough ==
  /\ [](\A i \in Regs :
          PassesThrough(i) =>
            /\ state[regs[i].ret] = PENDING \/ SameAsReceiver(i)
            /\ \A c \in Calls :
                 regs[calls[c].reg].recv = regs[i].ret =>
                   /\ calls[c].arg = valueOrReason[regs[i].recv]
                   /\ calls[c].recvState = state[regs[i].recv])
  /\ \A i \in 1..MaxRegs : PassesThrough(i) ~> SameAsReceiver(i)

\* p.then().then(null, onRejected) with then() called while p was pending:
\* p was rejected and onRejected has been invoked
C9_Witness ==
  \E i \in Regs : \E c \in Calls :
    /\ PassesThrough(i) /\ SameAsReceiver(i)
    /\ regs[i].at = PENDING
    /\ state[regs[i].recv] = REJECTED
    /\ regs[calls[c].reg].recv = regs[i].ret
    /\ calls[c].side = "onRejected"

\* C10's case: the receiver has settled and the selected handler returns the
\* head of a chain of k nested thenables that ends in V1.
ReturnsChain(i, k) == Settled(i) /\ Selected(i) = Ret(ChainValue(k))

ReturnsAChain(i) == \E k \in 1..MaxDepth : ReturnsChain(i, k)

FulfilledWithV1(i) ==
  /\ i \in Regs
  /\ state[regs[i].ret] = FULFILLED
  /\ valueOrReason[regs[i].ret] = V1

\* C10: when a handler returns the head of a chain of nested thenables that
\* ends in V1, the promise then returned is pending until it is fulfilled
\* with V1 (never with a thenable of the chain, never rejected), and it is
\* eventually fulfilled with V1.
C10_NestedThenables ==
  /\ [](\A i \in Regs :
          ReturnsAChain(i) =>
            state[regs[i].ret] = PENDING \/ FulfilledWithV1(i))
  /\ \A i \in 1..MaxRegs : ReturnsAChain(i) ~> FulfilledWithV1(i)

\* a handler returned the head of the longest chain and the promise is
\* fulfilled with V1
C10_Witness ==
  \E i \in Regs : ReturnsChain(i, MaxDepth) /\ FulfilledWithV1(i)

\* What the handler invoked in call i returned (not threw) is foreign object t.
ReturnedThenable(i, t) == ~calls[i].threw /\ calls[i].x = Thenable(t)

\* The promise for which promiseResolutionProcedure ran after call i.
Pair(i) == regs[calls[i].reg].ret

\* C11: in promiseResolutionProcedure(pair, x), when reading x.then throws e
\* the pair is rejected with e; when x.then(...) throws e having called
\* neither closure the pair is rejected with e; when it throws after calling
\* onFulfilled(V1) the pair is fulfilled with V1, and when it throws after
\* calling onFulfilled with a thenable that never calls back the pair stays
\* pending: the exception is dropped.
C11_ThenableFaults ==
  \A i \in Calls :
    /\ ReturnedThenable(i, GetterThrows) =>
         state[Pair(i)] = REJECTED /\ valueOrReason[Pair(i)] = E3
    /\ ReturnedThenable(i, ThrowFirst) =>
         state[Pair(i)] = REJECTED /\ valueOrReason[Pair(i)] = E3
    /\ ReturnedThenable(i, FThenThrow) =>
         state[Pair(i)] = FULFILLED /\ valueOrReason[Pair(i)] = V1
    /\ ReturnedThenable(i, FPendingThenThrow) => state[Pair(i)] = PENDING

\* one handler returned a thenable whose then throws at once, another a
\* thenable whose then throws after passing a pending thenable to onFulfilled
C11_Witness ==
  /\ \E i \in Calls : ReturnedThenable(i, ThrowFirst)
  /\ \E i \in Calls : ReturnedThenable(i, FPendingThenThrow)

\* C12 as stated: no exception thrown by user code the library calls (a work
\* function, a handler, a then getter or method) has left the constructor,
\* then, resolve, reject, a unit of work or a callback of a foreign thenable.
C12_NoFaultEscapes == escaped = {}

\* C13: of the two handlers of a then call at most one has been invoked, and
\* at most once; the receiver was not pending when it was invoked; it is the
\* handler for the receiver's outcome (onFulfilled when fulfilled, onRejected
\* when rejected), and its argument is the receiver's result.
C13_HandlerSelection ==
  \A i \in Calls :
    LET reg == calls[i].reg
        recv == regs[reg].recv
    IN /\ \A j \in Calls : calls[j].reg = reg => j = i
       /\ calls[i].recvState # PENDING
       /\ calls[i].recvState = state[recv]
       /\ calls[i].callback = Matching(reg, state[recv])
       /\ calls[i].side = "onFulfilled" <=> state[recv] = FULFILLED
       /\ calls[i].arg = valueOrReason[recv]

\* Both handlers of then call reg are functions, and not the same one.
TwoHandlers(reg) ==
  /\ IsFunction(regs[reg].onFulfilled)
  /\ IsFunction(regs[reg].onRejected)
  /\ regs[reg].onFulfilled # regs[reg].onRejected

\* of two then calls with two handlers each, one on a receiver that was
\* pending, the fulfillment handler of one and the rejection handler of the
\* other have been invoked
C13_Witness ==
  \E i \in Calls : \E j \in Calls :
    /\ TwoHandlers(calls[i].reg) /\ calls[i].side = "onFulfilled"
    /\ TwoHandlers(calls[j].reg) /\ calls[j].side = "onRejected"
    /\ regs[calls[i].reg].at = PENDING

\* Then calls a and b were made on the same promise.
SameReceiver(a, b) == regs[a].recv = regs[b].recv

\* C14: the handlers registered on one promise are invoked in the order of
\* the then calls: of two invocations for the same receiver the earlier is
\* for the earlier then call, and when a handler is invoked every earlier
\* then call on that receiver with a callable matching handler has had its
\* invocation.
C14_RegistrationOrder ==
  \A j \in Calls :
    /\ \A i \in 1..(j - 1) :
         SameReceiver(calls[i].reg, calls[j].reg) => calls[i].reg < calls[j].reg
    /\ \A a \in 1..(calls[j].reg - 1) :
         (SameReceiver(a, calls[j].reg)
            /\ IsFunction(Matching(a, calls[j].recvState)))
           => \E i \in 1..(j - 1) : calls[i].reg = a

\* two handlers of one promise have been invoked, the first registered while
\* the promise was pending and the second after it had settled
C14_Witness ==
  \E i \in Calls : \E j \in Calls :
    /\ i < j
    /\ SameReceiver(calls[i].reg, calls[j].reg)
    /\ regs[calls[i].reg].at = PENDING
    /\ regs[calls[j].reg].at # PENDING

\* The invocations made so far for then call i.
InvocationsOf(i) == {c \in Calls : calls[c].reg = i}

\* C15's case: the receiver of then call i has settled and the handler
\* matching its outcome is a function.
HandlerDue(i) == Settled(i) /\ IsFunction(Selected(i))

Invoked(i) == i \in Regs /\ Cardinality(InvocationsOf(i)) = 1

\* C15: when asap runs every unit of work, a callable handler that matches
\* the outcome of its settled receiver is eventually invoked, and no then
\* call ever has more than one invocation; whether the receiver was pending
\* or settled when then was called.
C15_EventualInvocation ==
  /\ [](\A i \in Regs : Cardinality(InvocationsOf(i)) <= 1)
  /\ \A i \in 1..MaxRegs : HandlerDue(i) ~> Invoked(i)

\* the handlers of a then call on a pending and of a then call on a settled
\* receiver have been invoked
C15_Witness ==
  \E i \in Regs : \E j \in Regs :
    /\ HandlerDue(i) /\ Invoked(i) /\ regs[i].at = PENDING
    /\ HandlerDue(j) /\ Invoked(j) /\ regs[j].at # PENDING

\* The units of work in asap's queue q that are for then call i.
TasksOf(q, i) == {t \in 1..Len(q) : q[t].reg = i}

\* C16: in a step that settles a promise with subscribers in its queue, no
\* handler of a subscriber is invoked and the promise of every subscriber
\* stays pending; the step leaves in asap's queue one unit of work for each
\* subscriber, for that subscriber's promise.
C16_NoInlineSubscribers ==
  [][\A p \in Promises :
       (state[p] = PENDING /\ state'[p] # PENDING) =>
         \A k \in 1..Len(subscribers[p]) :
           LET s == subscribers[p][k]
           IN /\ state[s.deferred] = PENDING
              /\ state'[s.deferred] = PENDING
              /\ \A c \in 1..Len(calls') : calls'[c].reg # s.reg
              /\ TasksOf(queue, s.reg) = {}
              /\ Cardinality(TasksOf(queue', s.reg)) = 1
              /\ \A t \in TasksOf(queue', s.reg) :
                   queue'[t].deferred = s.deferred]_vars

\* a promise with two subscribers, a handler and a pass-through, has been
\* settled: both units of work are in asap's queue, no handler has been
\* invoked and both promises are pending
C16_Witness ==
  \E i \in Regs : \E j \in Regs :
    /\ i # j /\ SameReceiver(i, j)
    /\ regs[i].at = PENDING /\ regs[j].at = PENDING
    /\ state[regs[i].recv] # PENDING
    /\ \E t \in TasksOf(queue, i) : queue[t].t = "callback"
    /\ \E t \in TasksOf(queue, j) : queue[t].t = "passthrough"
    /\ state[regs[i].ret] = PENDING /\ state[regs[j].ret] = PENDING
    /\ calls = <<>>

\* C17: in every state a promise has a result exactly when it is not
\* pending, and in every step a result that is set stays what it is.
C17_ResultInvariant ==
  /\ [](\A p \in Promises : valueOrReason[p] # Unset <=> state[p] # PENDING)
  /\ [][\A p \in Promises :
          valueOrReason[p] # Unset => valueOrReason'[p] = valueOrReason[p]]_vars

\* a promise is fulfilled with undefined (its result is set, to undefined),
\* another is pending, and resolve or reject has been called on a settled
\* promise
C17_Witness ==
  /\ \E p \in Promises : state[p] = FULFILLED /\ valueOrReason[p] = Undefined
  /\ \E p \in Promises : state[p] = PENDING
  /\ resettled # {}

\* The places in the subscribers of promise p held by then call i.
SubscriptionsOf(p, i) ==
  {k \in 1..Len(subscribers[p]) : subscribers[p][k].reg = i}

\* Sequence a is sequence b with elements appended.
Extends(a, b) == Len(a) > Len(b) /\ SubSeq(a, 1, Len(b)) = b

\* C18: a promise that is not pending has no subscribers; a then call made
\* on a pending receiver is among the receiver's subscribers once, and in no
\* unit of work, for as long as the receiver is pending, and in at most one
\* unit of work afterwards; a step changes the subscribers of a promise only
\* by appending to those of a pending promise or by settling the promise,
\* and the step that settles it leaves in asap's queue one unit of work for
\* each subscriber, in the subscribers' order.
C18_SubscriberQueue ==
  /\ [](\A p \in Promises : state[p] # PENDING => subscribers[p] = <<>>)
  /\ [](\A i \in Regs :
          regs[i].at = PENDING =>
            IF state[regs[i].recv] = PENDING
              THEN /\ Cardinality(SubscriptionsOf(regs[i].recv, i)) = 1
                   /\ TasksOf(queue, i) = {}
              ELSE Cardinality(TasksOf(queue, i)) <= 1)
  /\ [][\A p \in Promises :
          /\ subscribers'[p] # subscribers[p] =>
               /\ state[p] = PENDING
               /\ \/ state'[p] = PENDING
                       /\ Extends(subscribers'[p], subscribers[p])
                  \/ state'[p] # PENDING /\ subscribers'[p] = <<>>
          /\ (state[p] = PENDING /\ state'[p] # PENDING) =>
               \A k \in 1..Len(subscribers[p]) :
                 /\ Cardinality(TasksOf(queue', subscribers[p][k].reg)) = 1
                 /\ \A l \in 1..(k - 1) :
                      \A t \in TasksOf(queue', subscribers[p][k].reg) :
                        \A u \in TasksOf(queue', subscribers[p][l].reg) :
                          u < t]_vars

\* a promise that had two subscribers has settled and both units of work
\* have run: the promises of both subscribers are settled
C18_Witness ==
  \E i \in Regs : \E j \in Regs :
    /\ i < j /\ SameReceiver(i, j)
    /\ regs[i].at = PENDING /\ regs[j].at = PENDING
    /\ state[regs[i].recv] # PENDING /\ subscribers[regs[i].recv] = <<>>
    /\ TasksOf(queue, i) = {} /\ TasksOf(queue, j) = {}
    /\ state[regs[i].ret] # PENDING /\ state[regs[j].ret] # PENDING

\* Then calls i and j are user code's, on the same receiver and with the
\* same two handlers; i was made while the receiver was pending and j after
\* it had settled.
SameCall(i, j) ==
  /\ ~regs[i].internal /\ ~regs[j].internal
  /\ SameReceiver(i, j)
  /\ regs[i].onFulfilled = regs[j].onFulfilled
  /\ regs[i].onRejected = regs[j].onRejected
  /\ regs[i].at = PENDING /\ regs[j].at # PENDING

\* Nothing is left to run: asap's queue is empty and no timer is set.
Quiescent == queue = <<>> /\ timers = <<>>

SameOutcome(i, j) ==
  /\ state[regs[i].ret] = state[regs[j].ret]
  /\ valueOrReason[regs[i].ret] = valueOrReason[regs[j].ret]

AllSameOutcome == \A i \in Regs : \A j \in Regs : SameCall(i, j) => SameOutcome(i, j)

\* C19: when then has been called with the same handlers on the same promise
\* before and after the promise settled, then whenever nothing is left to run
\* the two promises it returned have the same state and result; and, asap
\* and the timers running everything, such a state is eventually reached.
C19_RegistrationTime ==
  /\ [](Quiescent => AllSameOutcome)
  /\ (\E i \in Regs : \E j \in Regs : SameCall(i, j))
       ~> (Quiescent /\ AllSameOutcome)

\* both then calls have led to a settled promise through a handler, the
\* earlier one to a promise of its own, and nothing is left to run
C19_Witness ==
  \E i \in Regs : \E j \in Regs :
    /\ SameCall(i, j) /\ Quiescent /\ SameOutcome(i, j)
    /\ IsFunction(Selected(i))
    /\ state[regs[i].ret] # PENDING
    /\ regs[i].ret # regs[j].ret

\* C20: the promise returned by a then call made on a pending receiver is
\* pending in every state in which the receiver is pending; when it is not
\* pending the subscriber's unit of work is neither waiting among the
\* receiver's subscribers nor in asap's queue; and it leaves the pending
\* state only in a step that starts with the receiver settled and ends with
\* that unit of work run.
C20_NoPrematureSettlement ==
  /\ [](\A i \in Regs :
          regs[i].at = PENDING =>
            /\ state[regs[i].recv] = PENDING => state[regs[i].ret] = PENDING
            /\ state[regs[i].ret] # PENDING =>
                 /\ SubscriptionsOf(regs[i].recv, i) = {}
                 /\ TasksOf(queue, i) = {})
  /\ [][\A i \in Regs :
          (/\ regs[i].at = PENDING
           /\ state[regs[i].ret] = PENDING
           /\ state'[regs[i].ret] # PENDING) =>
            /\ state[regs[i].recv] # PENDING
            /\ TasksOf(queue', i) = {}]_vars

\* of two then calls made on pending receivers, one has its promise settled,
\* and the other has a settled receiver, its unit of work in asap's queue and
\* its promise pending
C20_Witness ==
  \E i \in Regs : \E j \in Regs :
    /\ regs[i].at = PENDING /\ state[regs[i].ret] # PENDING
    /\ regs[j].at = PENDING /\ state[regs[j].recv] # PENDING
    /\ TasksOf(queue, j) # {} /\ state[regs[j].ret] = PENDING

====
